---- MODULE Spec2Model ----
(***************************************************************************)
(* Model of the dpyc-oracle citizenship onboarding workflow                *)
(* (src/src/dpyc_oracle/server.py) and of the cached registry client it    *)
(* reads through (src/src/dpyc_oracle/registry.py).                        *)
(*                                                                         *)
(* The server is one asyncio event loop.  A coroutine runs without         *)
(* interruption until it awaits network I/O, so every action below is the  *)
(* code between two suspension points of one tool invocation.  A call       *)
(* that awaits a coroutine which returns without doing I/O (a cache hit)   *)
(* is not suspended there.                                                 *)
(*                                                                         *)
(* Time is in seconds and advances in steps of TickSeconds.  time.time()   *)
(* and time.monotonic() are read from the same clock `now`.                *)
(***************************************************************************)
EXTENDS Integers, Sequences, FiniteSets, TLC

\* ---------------------------------------------------------------- bounds
MaxTime == 900          \* the clock stops advancing here
TickSeconds == 300      \* the step of the clock
MaxChallenges == 2      \* challenges ever issued (uuid4 values drawn)
MaxMembers == 3         \* records in the remote members.json
Tasks == {1, 2}         \* tool invocations that can be in flight together
RegMaxTime == 450       \* the clock of the registry client's own behaviours
RegTickSeconds == 150   \* and its step
MaxListLen == 3         \* records in a member list handed to the two scans

\* ------------------------------------------------------ program constants
cache_ttl_seconds == 300      \* OracleSettings.cache_ttl_seconds, the default
CHALLENGE_TTL_SECONDS == 600  \* _CHALLENGE_TTL_SECONDS

\* ------------------------------------------------------------ identities
\* npub strings a caller may pass.  "npub1a" and "npub1b" are well-formed
\* bech32 public keys; "npub1zz" has the prefix but does not decode;
\* "nsec1a" lacks the prefix.
ValidNpubs == {"npub1a", "npub1b"}
Npubs == ValidNpubs \cup {"npub1zz", "nsec1a"}
HasNpubPrefix == {"npub1a", "npub1b", "npub1zz"}
CuratorNpub == "npub1c"
\* The identities that apply for citizenship: one well-formed key (the owner
\* of "npub1b" only ever appears as a wrong claimant or a wrong signer) and
\* the two ill-formed strings.
ApplicantNpubs == Npubs \ {"npub1b"}
\* The identities claimed in confirm_citizenship, which compares the string
\* with the challenge's before it looks at its form.
ClaimedNpubs == ValidNpubs \cup {"nsec1a"}
\* The applicant for the k-th challenge drawn calls itself by the k-th name.
DisplayNameOf(k) == IF k % 2 = 1 THEN "Ann" ELSE "Bob"

\* PublicKey.parse(npub).to_hex(): the key a well-formed npub encodes.
PkHex(npub) ==
    CASE npub = "npub1a" -> "ka"
      [] npub = "npub1b" -> "kb"
      [] npub = "npub1c" -> "kc"
      [] OTHER -> "invalid"

\* validate_npub, were the prefix tested and the decoding not checked.
validate_npub_bad(npub) ==
    IF npub \notin HasNpubPrefix THEN "invalid"
    ELSE IF npub \in ValidNpubs THEN PkHex(npub)
    ELSE "kz"

\* _validate_npub: raises ValueError unless the string starts with "npub1"
\* and decodes; otherwise returns the public key.
validate_npub(npub) ==
    IF npub \notin HasNpubPrefix THEN "invalid"
    ELSE PkHex(npub)

\* -------------------------------------------------------- signed events
\* What confirm_citizenship is handed as signed_event_json.
\*   json    : Event.from_json accepts the text
\*   sig     : event.verify() accepts id and signature
\*   author  : event.author().to_hex()
\*   markers : the nonces n for which "DPYC-CITIZENSHIP:" + n is a
\*             substring of event.content()
MalformedEvent == [json |-> FALSE, sig |-> FALSE, author |-> "none", markers |-> {}]
NoEvent == [json |-> FALSE, sig |-> FALSE, author |-> "void", markers |-> {}]
\* The events tried: one that does not parse, and for either key, either
\* signature verdict and the marker of any one nonce, the event that has them.
\* The marker of another challenge's nonce is the wrong marker.
Events ==
    {MalformedEvent} \cup
    [json : {TRUE}, sig : BOOLEAN, author : {"ka", "kb"},
     markers : {{n} : n \in 1..MaxChallenges}]

\* --------------------------------------------------------------- members
Member(npub, role, dn, upstream) ==
    [npub |-> npub, role |-> role, status |-> "active",
     display_name |-> dn, upstream_authority_npub |-> upstream]
Curator == Member(CuratorNpub, "prime_authority", "Curator", "none")
None == [npub |-> "none", role |-> "none", status |-> "none",
         display_name |-> "none", upstream_authority_npub |-> "none"]

\* lookup_scan, were the scan to keep the last record that matches.
lookup_scan_bad(members, npub) ==
    LET hits == {i \in 1..Len(members) : members[i].npub = npub}
    IN  IF hits = {} THEN None
        ELSE members[CHOOSE i \in hits : \A j \in hits : j <= i]

\* CommunityRegistry.lookup_member's scan: first record whose npub matches.
RECURSIVE lookup_scan(_, _)
lookup_scan(members, npub) ==
    IF members = <<>> THEN None
    ELSE IF Head(members).npub = npub THEN Head(members)
    ELSE lookup_scan(Tail(members), npub)

\* curator_scan, were the first record taken for the curator whatever its role.
curator_scan_bad(members) == IF members = <<>> THEN None ELSE Head(members)

\* CommunityRegistry.get_first_curator's scan.
RECURSIVE curator_scan(_)
curator_scan(members) ==
    IF members = <<>> THEN None
    ELSE IF Head(members).role = "prime_authority" THEN Head(members)
    ELSE curator_scan(Tail(members))

\* ------------------------------------------------------------------ state
VARIABLES
    now,            \* the clock, in seconds
    challenges,     \* server._challenges: challenge_id -> challenge
    nextId,         \* the next uuid4 / token_hex value to be drawn
    json_cache,     \* CommunityRegistry._json_cache: path -> (data, fetched_at)
    text_cache,     \* CommunityRegistry._text_cache: path -> (text, fetched_at)
    remote,         \* the member list of members.json on the remote main branch
    github_token,   \* settings.github_token is set
    pc,             \* per task: where the invocation is suspended
    loc,            \* per task: the arguments and locals of the invocation
    ret,            \* what the invocation that ended in the last step returned
    confirmed,      \* challenge ids for which confirm_citizenship succeeded
    commit_failed,  \* <<challenge id, event>> of the calls that ended "commit
                    \* failed", for the challenges still in the store
    read_since_clear \* history, kept for the registry client's own behaviours:
                    \* the paths a read was begun for since invalidate_cache
                    \* last ran

vars == <<now, challenges, nextId, json_cache, text_cache, remote, github_token,
          pc, loc, ret, confirmed, commit_failed, read_since_clear>>

MembersPath == "members.json"
EmptyDict == [k \in {} |-> None]

IdleLoc ==
    [op |-> "none", npub |-> "none", cid |-> 0, dn |-> "none", ev |-> NoEvent,
     fnow |-> 0, guard |-> "none", upstream |-> "none", sha |-> <<>>,
     invoked |-> FALSE, api |-> 0, put |-> "none", retry |-> FALSE,
     path |-> "none", doc |-> "none", gets |-> 0, member |-> None]

\* The record of an invocation: its arguments and what it has done so far.
\*   ev      : the event, once the call has come to parse it
\*   fnow    : the time _fetch_json read when the pending fetch began
\*   guard   : what the race-guard lookup found ("absent" / "present")
\*   invoked : _commit_membership was called
\*   api     : requests sent to the contents API of the remote store
\*   put     : how the remote store answered the PUT
\*   retry   : when the call began, an earlier call with this challenge and
\*             this event had ended "commit failed"
\*   path    : the resource a registry read asks for
\*   doc     : the body a registry read was answered from
\*   gets    : GET requests the registry read sent
\*   member  : the record lookup_member / get_first_curator returned
\* The result of an invocation.  exc: the result is an exception that left
\* the tool function instead of a returned dict.
Result(t, call, res, exc, newid) ==
    [op |-> call.op, npub |-> call.npub, cid |-> call.cid,
     ev |-> call.ev, dn |-> call.dn, res |-> res, exc |-> exc,
     guard |-> call.guard, invoked |-> call.invoked, api |-> call.api, put |-> call.put,
     retry |-> call.retry, newid |-> newid,
     path |-> call.path, doc |-> call.doc, gets |-> call.gets,
     member |-> call.member]
NoRet == Result(0, IdleLoc, "none", FALSE, 0)

\* --------------------------------------------------------- registry client
\* cache_valid, were an entry still valid at the age of exactly the TTL.
cache_valid_bad(cache, path, t) ==
    /\ path \in DOMAIN cache
    /\ (t - cache[path].fetched_at) <= cache_ttl_seconds

\* _fetch_json lines 27-31: the entry exists and is younger than the TTL.
cache_valid(cache, path, t) ==
    /\ path \in DOMAIN cache
    /\ (t - cache[path].fetched_at) < cache_ttl_seconds

\* _fetch_json line 41: the entry is replaced by (data, now), `now` being the
\* time read when the fetch began.
cache_store(cache, path, data, fetched_at) ==
    [k \in DOMAIN cache \cup {path} |->
        IF k = path THEN [data |-> data, fetched_at |-> fetched_at] ELSE cache[k]]

\* get_members: data["members"], RegistryError when the wrapper is missing.
get_members(data) ==
    IF "members" \in DOMAIN data THEN data.members ELSE "RegistryError"

\* What a GET of members.json on the raw URL answers now.
RemoteDoc == [members |-> remote]

\* --------------------------------------------------------- challenge store
\* prune_expired_challenges, were expired challenges left in the store.
prune_expired_challenges_bad(store, t) == store

\* _prune_expired_challenges: drops the challenges with now > expires_at.
prune_expired_challenges(store, t) ==
    [k \in {i \in DOMAIN store : ~(t > store[i].expires_at)} |-> store[k]]

\* del_challenge, were the `del` left out.
del_challenge_bad(store, cid) == store

\* `del _challenges[challenge_id]` on a stored challenge.
del_challenge(store, cid) == [k \in DOMAIN store \ {cid} |-> store[k]]

\* has_pending, were the scan for a pending challenge left out.
has_pending_bad(store, npub) == FALSE

\* request_citizenship lines 352-358: some stored challenge is for npub.
has_pending(store, npub) == \E k \in DOMAIN store : store[k].npub = npub

\* request_citizenship lines 361-369: uuid4 and token_hex draw fresh values.
new_challenge(npub, dn, nonce, t) ==
    [npub |-> npub, display_name |-> dn, nonce |-> nonce,
     created_at |-> t, expires_at |-> t + CHALLENGE_TTL_SECONDS]

\* verify_gates, were the signer compared before the signature is verified.
verify_gates_bad(ev, npub, nonce) ==
    IF ~ev.json THEN "malformed"
    ELSE IF validate_npub(npub) = "invalid" THEN "invalid_npub"
    ELSE IF ev.author # validate_npub(npub) THEN "signer_mismatch"
    ELSE IF ~ev.sig THEN "bad_signature"
    ELSE IF nonce \notin ev.markers THEN "nonce_mismatch"
    ELSE "pass"

\* confirm_citizenship lines 426-464: the assertion gates, in code order.
verify_gates(ev, npub, nonce) ==
    IF ~ev.json THEN "malformed"
    ELSE IF ~ev.sig THEN "bad_signature"
    ELSE IF validate_npub(npub) = "invalid" THEN "invalid_npub"
    ELSE IF ev.author # validate_npub(npub) THEN "signer_mismatch"
    ELSE IF nonce \notin ev.markers THEN "nonce_mismatch"
    ELSE "pass"

\* confirm_checks, were the claimed npub compared with the challenge's only
\* after the assertion gates.
confirm_checks_bad(store, npub, cid, ev) ==
    IF cid \notin DOMAIN store THEN "not_found"
    ELSE IF verify_gates(ev, store[cid].npub, store[cid].nonce) # "pass"
    THEN verify_gates(ev, store[cid].npub, store[cid].nonce)
    ELSE IF store[cid].npub # npub THEN "npub_mismatch"
    ELSE "pass"

\* confirm_citizenship lines 413-464: everything decided before the first
\* await, on the pruned store.
confirm_checks(store, npub, cid, ev) ==
    IF cid \notin DOMAIN store THEN "not_found"
    ELSE IF store[cid].npub # npub THEN "npub_mismatch"
    ELSE verify_gates(ev, npub, store[cid].nonce)

TypeOK ==
    /\ now \in 0..(MaxTime + TickSeconds)
    /\ nextId \in 1..(MaxChallenges + 1)
    /\ DOMAIN challenges \subseteq 1..MaxChallenges
    /\ github_token \in BOOLEAN
    /\ \A t \in Tasks : pc[t] \in {"idle", "rq_lookup", "cf_guard", "cf_curator",
                                   "cf_get", "cf_put", "cf_resp",
                                   "reg_json", "reg_text"}

Init ==
    /\ now = 0
    /\ challenges = EmptyDict
    /\ nextId = 1
    /\ json_cache = EmptyDict
    /\ text_cache = EmptyDict
    /\ remote = <<Curator>>
    /\ github_token \in BOOLEAN
    /\ pc = [t \in Tasks |-> "idle"]
    /\ loc = [t \in Tasks |-> IdleLoc]
    /\ ret = NoRet
    /\ confirmed = {}
    /\ commit_failed = {}
    /\ read_since_clear = {}

\* Tasks are slots of the event loop; a new invocation takes the lowest free
\* one.  The result of the invocation that ended last is handed to its caller
\* (Deliver) before the event loop runs anything else.
FreeTask(t) ==
    /\ ret = NoRet
    /\ pc[t] = "idle"
    /\ \A u \in Tasks : pc[u] = "idle" => t <= u

\* The invocation of task t ends.
Return(t, call, res, exc, newid) ==
    /\ pc' = [pc EXCEPT ![t] = "idle"]
    /\ loc' = [loc EXCEPT ![t] = IdleLoc]
    /\ ret' = Result(t, call, res, exc, newid)

\* The invocation of task t awaits network I/O.
Suspend(t, at, call) ==
    /\ pc' = [pc EXCEPT ![t] = at]
    /\ loc' = [loc EXCEPT ![t] = call]
    /\ ret' = NoRet

\* The commit failures recorded for challenges that are still in `store`.
StillStored(failures, store) == {f \in failures : f[1] \in DOMAIN store}

\* ------------------------------------------------------ request_citizenship
\* RequestAfterLookup, were the membership check left out.
RequestAfterLookup_bad(t, call, data) ==
    LET pruned == prune_expired_challenges(challenges, now)
    IN  IF has_pending(pruned, call.npub)
        THEN /\ challenges' = pruned
             /\ commit_failed' = StillStored(commit_failed, pruned)
             /\ Return(t, call, "pending", FALSE, 0)
             /\ UNCHANGED nextId
        ELSE /\ commit_failed' = StillStored(commit_failed, pruned)
             /\ challenges' =
                    [k \in DOMAIN pruned \cup {nextId} |->
                        IF k = nextId
                        THEN new_challenge(call.npub, call.dn, nextId, now)
                        ELSE pruned[k]]
             /\ nextId' = nextId + 1
             /\ Return(t, call, "ok", FALSE, nextId)

\* Lines 344-389, run once lookup_member has the member document `data`:
\* the membership check, the prune, the pending check and the issuance.
RequestAfterLookup(t, call, data) ==
    LET members == get_members(data)
        pruned == prune_expired_challenges(challenges, now)
    IN  IF members = "RegistryError"
        THEN /\ Return(t, call, "RegistryError", TRUE, 0)
             /\ UNCHANGED <<challenges, nextId, commit_failed>>
        ELSE IF lookup_scan(members, call.npub) # None
        THEN /\ Return(t, call, "already_member", FALSE, 0)
             /\ UNCHANGED <<challenges, nextId, commit_failed>>
        ELSE IF has_pending(pruned, call.npub)
        THEN /\ challenges' = pruned
             /\ commit_failed' = StillStored(commit_failed, pruned)
             /\ Return(t, call, "pending", FALSE, 0)
             /\ UNCHANGED nextId
        ELSE /\ commit_failed' = StillStored(commit_failed, pruned)
             /\ challenges' =
                    [k \in DOMAIN pruned \cup {nextId} |->
                        IF k = nextId
                        THEN new_challenge(call.npub, call.dn, nextId, now)
                        ELSE pruned[k]]
             /\ nextId' = nextId + 1
             /\ Return(t, call, "ok", FALSE, nextId)

\* Lines 335-343: validation, then lookup_member.  A valid cache entry
\* answers without I/O and the call runs to its end; otherwise the call
\* awaits the GET of members.json.
RequestStart(t, npub, dn) ==
    /\ FreeTask(t)
    /\ nextId + Cardinality({u \in Tasks : pc[u] = "rq_lookup"}) <= MaxChallenges
    /\ LET call == [IdleLoc EXCEPT !.op = "request", !.npub = npub, !.dn = dn]
       IN  IF validate_npub(npub) = "invalid"
           THEN /\ Return(t, call, "invalid_npub", FALSE, 0)
                /\ UNCHANGED <<challenges, nextId, commit_failed>>
           ELSE IF cache_valid(json_cache, MembersPath, now)
           THEN RequestAfterLookup(t, call, json_cache[MembersPath].data)
           ELSE /\ Suspend(t, "rq_lookup", [call EXCEPT !.fnow = now])
                /\ UNCHANGED <<challenges, nextId, commit_failed>>
    /\ UNCHANGED <<now, json_cache, text_cache, remote, github_token, read_since_clear, confirmed>>

\* The GET of _fetch_json answers (lines 35-42).  A failure raises
\* RegistryError, which request_citizenship does not catch.
RequestLookupDone(t, outcome) ==
    /\ ret = NoRet
    /\ pc[t] = "rq_lookup"
    /\ IF outcome = "fail"
       THEN /\ Return(t, loc[t], "RegistryError", TRUE, 0)
            /\ UNCHANGED <<challenges, nextId, json_cache, commit_failed>>
       ELSE /\ json_cache' = cache_store(json_cache, MembersPath, RemoteDoc, loc[t].fnow)
            /\ RequestAfterLookup(t, loc[t], RemoteDoc)
    /\ UNCHANGED <<now, text_cache, remote, github_token, read_since_clear, confirmed>>

\* ------------------------------------------------------ confirm_citizenship
\* ConfirmReject, were a failed attempt to use the challenge up.
ConfirmReject_bad(t, call, verdict, pruned) ==
    /\ challenges' = del_challenge(pruned, call.cid)
    /\ Return(t, call, verdict, FALSE, 0)
    /\ UNCHANGED <<json_cache, text_cache>>

\* Lines 414-464: a failed check returns its error; nothing but the prune has
\* touched the store.
ConfirmReject(t, call, verdict, pruned) ==
    /\ challenges' = pruned
    /\ Return(t, call, verdict, FALSE, 0)
    /\ UNCHANGED <<json_cache, text_cache>>

\* ConfirmStart, were invalidate_cache left out: a valid cache entry answers
\* the race-guard lookup.
ConfirmStart_bad(t, npub, cid, ev) ==
    /\ FreeTask(t)
    /\ LET pruned == prune_expired_challenges(challenges, now)
           verdict == confirm_checks(pruned, npub, cid, ev)
           call == [IdleLoc EXCEPT !.op = "confirm", !.npub = npub, !.cid = cid,
                                   !.ev = IF verdict \in {"not_found", "npub_mismatch"}
                                          THEN NoEvent ELSE ev,
                                   !.retry = (<<cid, ev>> \in commit_failed)]
       IN  IF verdict # "pass"
           THEN /\ commit_failed' = StillStored(commit_failed, pruned)
                /\ ConfirmReject(t, call, verdict, pruned)
           ELSE IF ~cache_valid(json_cache, MembersPath, now)
           THEN /\ commit_failed' = StillStored(commit_failed, pruned)
                /\ challenges' = pruned
                /\ Suspend(t, "cf_guard",
                           [call EXCEPT !.dn = pruned[cid].display_name, !.fnow = now])
                /\ UNCHANGED <<json_cache, text_cache>>
           ELSE LET members == get_members(json_cache[MembersPath].data)
                    known == [call EXCEPT !.dn = pruned[cid].display_name]
                IN  /\ UNCHANGED <<json_cache, text_cache>>
                    /\ IF lookup_scan(members, npub) # None
                       THEN /\ challenges' = del_challenge(pruned, cid)
                            /\ commit_failed' = StillStored(commit_failed, challenges')
                            /\ Return(t, [known EXCEPT !.guard = "present"],
                                      "registered_while_pending", FALSE, 0)
                       ELSE /\ challenges' = pruned
                            /\ IF github_token
                               THEN /\ commit_failed' = StillStored(commit_failed, pruned)
                                    /\ Suspend(t, "cf_get",
                                         [known EXCEPT !.guard = "absent", !.invoked = TRUE,
                                                       !.upstream = curator_scan(members).npub,
                                                       !.api = 1])
                               ELSE /\ commit_failed' =
                                         StillStored(commit_failed \cup {<<cid, ev>>}, pruned)
                                    /\ Return(t, [known EXCEPT !.guard = "absent",
                                                               !.invoked = TRUE],
                                              "commit_failed", FALSE, 0)
    /\ UNCHANGED <<now, nextId, remote, github_token, read_since_clear, confirmed>>

\* Lines 410-469: the prune, the challenge checks and the assertion gates run
\* without suspension.  When all pass, invalidate_cache empties both caches
\* and lookup_member finds no entry, so the call awaits the GET.
ConfirmStart(t, npub, cid, ev) ==
    /\ FreeTask(t)
    /\ LET pruned == prune_expired_challenges(challenges, now)
           verdict == confirm_checks(pruned, npub, cid, ev)
           call == [IdleLoc EXCEPT !.op = "confirm", !.npub = npub, !.cid = cid,
                                   !.ev = IF verdict \in {"not_found", "npub_mismatch"}
                                          THEN NoEvent ELSE ev,
                                   !.retry = (<<cid, ev>> \in commit_failed)]
       IN  /\ commit_failed' = StillStored(commit_failed, pruned)
           /\ IF verdict # "pass"
              THEN ConfirmReject(t, call, verdict, pruned)
              ELSE /\ challenges' = pruned
                   /\ json_cache' = EmptyDict
                   /\ text_cache' = EmptyDict
                   /\ Suspend(t, "cf_guard",
                              [call EXCEPT !.dn = pruned[cid].display_name,
                                           !.fnow = now])
    /\ UNCHANGED <<now, nextId, remote, github_token, read_since_clear, confirmed>>

\* CommitFailed, were the challenge dropped when the commit fails.
CommitFailed_bad(t, call) ==
    /\ Return(t, call, "commit_failed", FALSE, 0)
    /\ challenges' = del_challenge(challenges, call.cid)
    /\ commit_failed' = StillStored(commit_failed, challenges')
    /\ UNCHANGED confirmed

\* A confirm_citizenship call ends with the commit-failed result (lines
\* 482-487); the challenge is left alone.
CommitFailed(t, call) ==
    /\ Return(t, call, "commit_failed", FALSE, 0)
    /\ commit_failed' = StillStored(commit_failed \cup {<<call.cid, call.ev>>}, challenges)
    /\ UNCHANGED <<challenges, confirmed>>

\* CommitBegin, were the token check of lines 100-105 left out.
CommitBegin_bad(t, call0, cache) ==
    LET call == [call0 EXCEPT !.invoked = TRUE]
    IN  IF cache_valid(cache, MembersPath, now)
        THEN LET members == get_members(cache[MembersPath].data)
             IN  IF members = "RegistryError"
                 THEN CommitFailed(t, call)
                 ELSE /\ Suspend(t, "cf_get",
                                 [call EXCEPT !.upstream = curator_scan(members).npub,
                                              !.fnow = 0, !.api = 1])
                      /\ UNCHANGED <<challenges, confirmed, commit_failed>>
        ELSE /\ Suspend(t, "cf_curator", [call EXCEPT !.fnow = now])
             /\ UNCHANGED <<challenges, confirmed, commit_failed>>

\* _commit_membership lines 100-116, entered with the registry cache `cache`:
\* the token check, then get_first_curator, which is answered by a valid
\* cache entry or awaits a GET.
CommitBegin(t, call0, cache) ==
    LET call == [call0 EXCEPT !.invoked = TRUE]
    IN  IF ~github_token
        THEN CommitFailed(t, call)
        ELSE IF cache_valid(cache, MembersPath, now)
        THEN LET members == get_members(cache[MembersPath].data)
             IN  IF members = "RegistryError"
                 THEN CommitFailed(t, call)
                 ELSE /\ Suspend(t, "cf_get",
                                 [call EXCEPT !.upstream = curator_scan(members).npub,
                                              !.fnow = 0, !.api = 1])
                      /\ UNCHANGED <<challenges, confirmed, commit_failed>>
        ELSE /\ Suspend(t, "cf_curator", [call EXCEPT !.fnow = now])
             /\ UNCHANGED <<challenges, confirmed, commit_failed>>

\* Lines 469-481: the race-guard GET answers.  A failure raises RegistryError
\* out of confirm_citizenship.  A member found: `del _challenges[challenge_id]`,
\* which raises KeyError when the challenge has left the store meanwhile.
ConfirmGuardDone(t, outcome) ==
    /\ ret = NoRet
    /\ pc[t] = "cf_guard"
    /\ IF outcome = "fail"
       THEN /\ Return(t, loc[t], "RegistryError", TRUE, 0)
            /\ UNCHANGED <<challenges, json_cache, confirmed, commit_failed>>
       ELSE LET cache == cache_store(json_cache, MembersPath, RemoteDoc, loc[t].fnow)
                members == get_members(RemoteDoc)
            IN  /\ json_cache' = cache
                /\ IF members = "RegistryError"
                   THEN /\ Return(t, loc[t], "RegistryError", TRUE, 0)
                        /\ UNCHANGED <<challenges, confirmed, commit_failed>>
                   ELSE IF lookup_scan(members, loc[t].npub) # None
                   THEN IF loc[t].cid \in DOMAIN challenges
                        THEN /\ challenges' = del_challenge(challenges, loc[t].cid)
                             /\ commit_failed' = StillStored(commit_failed, challenges')
                             /\ Return(t, [loc[t] EXCEPT !.guard = "present"],
                                       "registered_while_pending", FALSE, 0)
                             /\ UNCHANGED confirmed
                        ELSE /\ Return(t, [loc[t] EXCEPT !.guard = "present"],
                                       "KeyError", TRUE, 0)
                             /\ UNCHANGED <<challenges, confirmed, commit_failed>>
                   ELSE CommitBegin(t, [loc[t] EXCEPT !.guard = "absent"], cache)
    /\ UNCHANGED <<now, nextId, text_cache, remote, github_token, read_since_clear>>

\* get_first_curator's GET answers (registry.py lines 35-42, 81-86); a
\* RegistryError here is inside confirm_citizenship's try block.
ConfirmCuratorDone(t, outcome) ==
    /\ ret = NoRet
    /\ pc[t] = "cf_curator"
    /\ IF outcome = "fail"
       THEN /\ CommitFailed(t, loc[t])
            /\ UNCHANGED json_cache
       ELSE /\ json_cache' = cache_store(json_cache, MembersPath, RemoteDoc, loc[t].fnow)
            /\ LET members == get_members(RemoteDoc)
               IN  IF members = "RegistryError"
                   THEN CommitFailed(t, loc[t])
                   ELSE /\ Suspend(t, "cf_get",
                                   [loc[t] EXCEPT !.upstream = curator_scan(members).npub,
                                                  !.fnow = 0, !.api = 1])
                        /\ UNCHANGED <<challenges, confirmed, commit_failed>>
    /\ UNCHANGED <<now, nextId, text_cache, remote, github_token, read_since_clear>>

\* _commit_membership lines 120-125: the contents GET answers with the file
\* and its sha.  The sha is the hash of the content, so the content stands
\* for it.
ConfirmApiGet(t, outcome) ==
    /\ ret = NoRet
    /\ pc[t] = "cf_get"
    /\ IF outcome = "fail"
       THEN CommitFailed(t, loc[t])
       ELSE /\ Suspend(t, "cf_put", [loc[t] EXCEPT !.sha = remote, !.api = 2])
            /\ UNCHANGED <<challenges, confirmed, commit_failed>>
    /\ UNCHANGED <<now, nextId, json_cache, text_cache, remote, github_token, read_since_clear>>

\* updated_members, were the applicant recorded as its own upstream authority.
updated_members_bad(call) ==
    Append(call.sha, Member(call.npub, "citizen", call.dn, call.npub))

\* updated_members, were the new record put in front of the list read.
updated_members_front(call) ==
    <<Member(call.npub, "citizen", call.dn, call.upstream)>> \o call.sha

\* _commit_membership lines 128-140: the list read, with the new record
\* appended.
updated_members(call) ==
    Append(call.sha, Member(call.npub, "citizen", call.dn, call.upstream))

\* The remote store handles the PUT of lines 145-152: it writes when the sha
\* sent is still that of the file, and answers 409 otherwise.
ConfirmApiPut(t, outcome) ==
    /\ ret = NoRet
    /\ pc[t] = "cf_put"
    /\ Len(remote) < MaxMembers
    /\ IF outcome = "fail"
       THEN /\ Suspend(t, "cf_resp", [loc[t] EXCEPT !.put = "error"])
            /\ UNCHANGED remote
       ELSE IF loc[t].sha # remote
       THEN /\ Suspend(t, "cf_resp", [loc[t] EXCEPT !.put = "conflict"])
            /\ UNCHANGED remote
       ELSE /\ remote' = updated_members(loc[t])
            /\ Suspend(t, "cf_resp", [loc[t] EXCEPT !.put = "ok"])
    /\ UNCHANGED <<now, challenges, nextId, json_cache, text_cache, github_token, read_since_clear,
                   confirmed, commit_failed>>

\* Lines 153-154 and 482-500: the PUT's answer reaches the call.  An error
\* status ends it "commit failed"; success runs `del _challenges[...]`, which
\* raises KeyError when the challenge has left the store meanwhile.
ConfirmPutDone(t) ==
    /\ ret = NoRet
    /\ pc[t] = "cf_resp"
    /\ IF loc[t].put # "ok"
       THEN CommitFailed(t, loc[t])
       ELSE IF loc[t].cid \in DOMAIN challenges
       THEN /\ challenges' = del_challenge(challenges, loc[t].cid)
            /\ Return(t, loc[t], "ok", FALSE, 0)
            /\ confirmed' = confirmed \cup {loc[t].cid}
            /\ commit_failed' = StillStored(commit_failed, challenges')
       ELSE /\ Return(t, loc[t], "KeyError", TRUE, 0)
            /\ UNCHANGED <<challenges, confirmed, commit_failed>>
    /\ UNCHANGED <<now, nextId, json_cache, text_cache, remote, github_token, read_since_clear>>

\* ------------------------------------------------------------- environment
\* Some timestamp is held by the program.  The code compares timestamps only
\* with each other, so before the first one is taken a tick changes nothing.
HoldsTimestamp ==
    \/ DOMAIN challenges # {}
    \/ DOMAIN json_cache # {}
    \/ \E t \in Tasks : pc[t] \in {"rq_lookup", "cf_guard", "cf_curator"}

\* The clock advances.
Tick ==
    /\ ret = NoRet
    /\ now < MaxTime
    /\ HoldsTimestamp
    /\ now' = now + TickSeconds
    /\ ret' = NoRet
    /\ UNCHANGED <<challenges, nextId, json_cache, text_cache, remote, github_token, read_since_clear,
                   pc, loc, confirmed, commit_failed>>

\* The caller receives the result.
Deliver ==
    /\ ret # NoRet
    /\ ret' = NoRet
    /\ UNCHANGED <<now, challenges, nextId, json_cache, text_cache, remote,
                   github_token, read_since_clear, pc, loc, confirmed, commit_failed>>

Outcomes == {"ok", "fail"}

Next ==
    \/ \E t \in Tasks, npub \in ApplicantNpubs : RequestStart(t, npub, DisplayNameOf(nextId))
    \/ \E t \in Tasks, o \in Outcomes : RequestLookupDone(t, o)
    \/ \E t \in Tasks, npub \in ClaimedNpubs, cid \in 1..MaxChallenges, ev \in Events :
            ConfirmStart(t, npub, cid, ev)
    \/ \E t \in Tasks, o \in Outcomes : ConfirmGuardDone(t, o)
    \/ \E t \in Tasks, o \in Outcomes : ConfirmCuratorDone(t, o)
    \/ \E t \in Tasks, o \in Outcomes : ConfirmApiGet(t, o)
    \/ \E t \in Tasks, o \in Outcomes : ConfirmApiPut(t, o)
    \/ \E t \in Tasks : ConfirmPutDone(t)
    \/ Deliver
    \/ Tick

Spec == Init /\ [][Next]_vars

\* The workflow against a remote member list that may also lack a
\* prime_authority record when the server starts.
InitialLists == {<<>>, <<Curator>>}

InitAnyList ==
    /\ now = 0
    /\ challenges = EmptyDict
    /\ nextId = 1
    /\ json_cache = EmptyDict
    /\ text_cache = EmptyDict
    /\ remote \in InitialLists
    /\ github_token \in BOOLEAN
    /\ pc = [t \in Tasks |-> "idle"]
    /\ loc = [t \in Tasks |-> IdleLoc]
    /\ ret = NoRet
    /\ confirmed = {}
    /\ commit_failed = {}
    /\ read_since_clear = {}

SpecAnyList == InitAnyList /\ [][Next]_vars

\* The workflow with a clock that runs as long as a challenge that has not
\* expired is in the store, however late it was issued, and with the progress
\* its environment gives it: time passes, a request sent gets its response or
\* its timeout (httpx timeouts: registry.py line 22, server.py line 118),
\* results are delivered, and callers keep invoking confirm_citizenship.
Unexpired == \E k \in DOMAIN challenges : ~(now > challenges[k].expires_at)

LiveTick ==
    /\ ret = NoRet
    /\ Unexpired
    /\ now' = now + TickSeconds
    /\ ret' = NoRet
    /\ UNCHANGED <<challenges, nextId, json_cache, text_cache, remote, github_token,
                   read_since_clear, pc, loc, confirmed, commit_failed>>

\* The calls made: the applicant asks for a challenge, and confirms with an
\* event that does not parse or with its own signed event carrying the marker
\* of some nonce.
LiveEvents ==
    {MalformedEvent} \cup
    [json : {TRUE}, sig : {TRUE}, author : {"ka"},
     markers : {{n} : n \in 1..MaxChallenges}]

Invoke ==
    \E t \in Tasks, cid \in 1..MaxChallenges, ev \in LiveEvents :
        ConfirmStart(t, "npub1a", cid, ev)

\* A response or a timeout reaches a waiting call, or a result its caller.
Progress ==
    \/ \E t \in Tasks, o \in Outcomes : RequestLookupDone(t, o)
    \/ \E t \in Tasks, o \in Outcomes : ConfirmGuardDone(t, o)
    \/ \E t \in Tasks, o \in Outcomes : ConfirmCuratorDone(t, o)
    \/ \E t \in Tasks, o \in Outcomes : ConfirmApiGet(t, o)
    \/ \E t \in Tasks, o \in Outcomes : ConfirmApiPut(t, o)
    \/ \E t \in Tasks : ConfirmPutDone(t)
    \/ Deliver

LiveNext ==
    \/ \E t \in Tasks : RequestStart(t, "npub1a", DisplayNameOf(nextId))
    \/ Invoke
    \/ Progress
    \/ LiveTick

Fairness ==
    /\ SF_vars(LiveTick)
    /\ WF_vars(Progress)
    /\ SF_vars(Invoke)

LiveSpec == Init /\ [][LiveNext]_vars /\ Fairness

\* ======================================================== registry client
\* The registry client on its own: its four read operations and
\* invalidate_cache, called in any order and overlapping, against a remote
\* store that may answer every GET with any body or fail.

\* Bodies the raw URL of members.json may answer with, by name.
\*   doc_empty     {"members": []}
\*   doc_curator   {"members": [curator]}
\*   doc_two       {"members": [curator, a citizen]}
\*   doc_nowrapper a JSON value with no "members" key to subscript
\*   doc_null      {"members": null}
JsonDocs == {"doc_empty", "doc_curator", "doc_two", "doc_nowrapper", "doc_null"}
\* Bodies of a text document.
Texts == {"text1", "text2"}
TextPaths == {"GOVERNANCE.md"}
\* The ways a GET fails: the transport raises, the status is not 2xx
\* (raise_for_status), the body is not JSON (resp.json() raises ValueError).
TransportError == "transport_error"
StatusError == "status_error"
Unparseable == "unparseable"
JsonResponses == JsonDocs \cup {TransportError, StatusError, Unparseable}
TextResponses == Texts \cup {TransportError, StatusError}

\* resp.json() of a body.
ParseDoc(doc) ==
    CASE doc = "doc_empty" -> [members |-> <<>>]
      [] doc = "doc_curator" -> [members |-> <<Curator>>]
      [] doc = "doc_two" ->
            [members |-> <<Curator, Member("npub1a", "citizen", "Ann", CuratorNpub)>>]
      [] doc = "doc_nowrapper" -> [version |-> 1]
      [] doc = "doc_null" -> [members |-> None]

\* get_members line 65: data["members"] can be taken.
has_wrapper(data) == "members" \in DOMAIN data

\* The value get_members returned is a list (`for member in members` works).
is_list(doc) == doc # "doc_null"

RegistryOps == {"get_members", "lookup_member", "get_first_curator", "get_text"}
PathsOf(op) == IF op = "get_text" THEN TextPaths ELSE {MembersPath}
CacheOf(op) == IF op = "get_text" THEN text_cache ELSE json_cache

\* What the operation makes of the body `doc` that _fetch_json / _fetch_text
\* returned: get_text returns it; get_members raises RegistryError unless the
\* wrapper is there; lookup_member and get_first_curator iterate over what
\* get_members returned.
RegistryAnswer(t, call0, doc) ==
    LET call == [call0 EXCEPT !.doc = doc]
    IN  IF call.op = "get_text" THEN Return(t, call, "ok", FALSE, 0)
        ELSE IF ~has_wrapper(ParseDoc(doc)) THEN Return(t, call, "RegistryError", TRUE, 0)
        ELSE IF call.op = "get_members" THEN Return(t, call, "ok", FALSE, 0)
        ELSE IF ~is_list(doc) THEN Return(t, call, "TypeError", TRUE, 0)
        ELSE Return(t, call, "ok", FALSE, 0)

\* A read begins (registry.py lines 27-33, 45-51): a valid entry answers it
\* without I/O, otherwise the GET is sent and the read awaits it.
RegistryReadStart(t, op, path, npub) ==
    /\ FreeTask(t)
    /\ LET call == [IdleLoc EXCEPT !.op = op, !.path = path, !.npub = npub,
                                   !.fnow = now]
       IN  IF cache_valid(CacheOf(op), path, now)
           THEN RegistryAnswer(t, call, CacheOf(op)[path].data)
           ELSE Suspend(t, IF op = "get_text" THEN "reg_text" ELSE "reg_json",
                        [call EXCEPT !.gets = 1])
    /\ read_since_clear' = read_since_clear \cup {path}
    /\ UNCHANGED <<now, challenges, nextId, json_cache, text_cache, remote,
                   github_token, confirmed, commit_failed>>

\* RegistryJsonDone, were a failed fetch to evict the entry of its path.
RegistryJsonDone_bad(t, response) ==
    /\ ret = NoRet
    /\ pc[t] = "reg_json"
    /\ IF response \in {TransportError, StatusError, Unparseable}
       THEN /\ Return(t, loc[t], "RegistryError", TRUE, 0)
            /\ json_cache' = [k \in DOMAIN json_cache \ {loc[t].path} |-> json_cache[k]]
       ELSE /\ json_cache' = cache_store(json_cache, loc[t].path, response, loc[t].fnow)
            /\ RegistryAnswer(t, loc[t], response)
    /\ UNCHANGED <<now, challenges, nextId, text_cache, remote, github_token, read_since_clear,
                   confirmed, commit_failed>>

\* The GET of _fetch_json answers (lines 35-42): a failure raises
\* RegistryError and stores nothing; a body is stored with the time read when
\* the fetch began.
RegistryJsonDone(t, response) ==
    /\ ret = NoRet
    /\ pc[t] = "reg_json"
    /\ IF response \in {TransportError, StatusError, Unparseable}
       THEN /\ Return(t, loc[t], "RegistryError", TRUE, 0)
            /\ UNCHANGED json_cache
       ELSE /\ json_cache' = cache_store(json_cache, loc[t].path, response, loc[t].fnow)
            /\ RegistryAnswer(t, loc[t], response)
    /\ UNCHANGED <<now, challenges, nextId, text_cache, remote, github_token, read_since_clear,
                   confirmed, commit_failed>>

\* The GET of _fetch_text answers (lines 53-60).
RegistryTextDone(t, response) ==
    /\ ret = NoRet
    /\ pc[t] = "reg_text"
    /\ IF response \in {TransportError, StatusError}
       THEN /\ Return(t, loc[t], "RegistryError", TRUE, 0)
            /\ UNCHANGED text_cache
       ELSE /\ text_cache' = cache_store(text_cache, loc[t].path, response, loc[t].fnow)
            /\ RegistryAnswer(t, loc[t], response)
    /\ UNCHANGED <<now, challenges, nextId, json_cache, remote, github_token, read_since_clear,
                   confirmed, commit_failed>>

\* invalidate_cache (lines 88-90): both dicts are cleared.
InvalidateCache ==
    /\ ret = NoRet
    /\ json_cache' = EmptyDict
    /\ text_cache' = EmptyDict
    /\ ret' = Result(0, [IdleLoc EXCEPT !.op = "invalidate_cache"], "ok", FALSE, 0)
    /\ read_since_clear' = {}
    /\ UNCHANGED <<now, challenges, nextId, remote, github_token, pc, loc,
                   confirmed, commit_failed>>

\* The clock advances; before the client holds any timestamp a tick changes
\* nothing.
RegistryTick ==
    /\ ret = NoRet
    /\ now < RegMaxTime
    /\ \/ DOMAIN json_cache # {}
       \/ DOMAIN text_cache # {}
       \/ \E t \in Tasks : pc[t] # "idle"
    /\ now' = now + RegTickSeconds
    /\ UNCHANGED <<challenges, nextId, json_cache, text_cache, remote, github_token, read_since_clear,
                   pc, loc, ret, confirmed, commit_failed>>

RegistryInit == Init /\ github_token

RegistryNext ==
    \/ \E t \in Tasks, op \in RegistryOps : \E path \in PathsOf(op) :
            RegistryReadStart(t, op, path, IF op = "lookup_member" THEN "npub1a" ELSE "none")
    \/ \E t \in Tasks, r \in JsonResponses : RegistryJsonDone(t, r)
    \/ \E t \in Tasks, r \in TextResponses : RegistryTextDone(t, r)
    \/ InvalidateCache
    \/ RegistryTick
    \/ Deliver

RegistrySpec == RegistryInit /\ [][RegistryNext]_vars

\* ============================================================ the scans
\* lookup_member and get_first_curator applied to any member list that
\* get_members may hand them.

\* The records a list is made of: either key, either role, either name.
MemberPool ==
    {Member(n, r, d, "none") :
        n \in ValidNpubs, r \in {"citizen", "prime_authority"}, d \in {"Ann", "Bob"}}
\* The sequences of at most n records.
ListsUpTo(n) == UNION {[1..k -> MemberPool] : k \in 0..n}
MemberLists == ListsUpTo(MaxListLen)
\* The keys looked up: the two that records carry and one that none carries.
LookupKeys == ValidNpubs \cup {"npub1zz"}

\* registry.py lines 76-79 on the list `remote`.
LookupMember(t, npub) ==
    /\ FreeTask(t)
    /\ Return(t, [IdleLoc EXCEPT !.op = "lookup_member", !.npub = npub,
                                 !.member = lookup_scan(remote, npub)],
              "ok", FALSE, 0)
    /\ UNCHANGED <<now, challenges, nextId, json_cache, text_cache, remote,
                   github_token, confirmed, commit_failed, read_since_clear>>

\* registry.py lines 83-86 on the list `remote`.
GetFirstCurator(t) ==
    /\ FreeTask(t)
    /\ Return(t, [IdleLoc EXCEPT !.op = "get_first_curator",
                                 !.member = curator_scan(remote)],
              "ok", FALSE, 0)
    /\ UNCHANGED <<now, challenges, nextId, json_cache, text_cache, remote,
                   github_token, confirmed, commit_failed, read_since_clear>>

ScanInit ==
    /\ now = 0
    /\ challenges = EmptyDict
    /\ nextId = 1
    /\ json_cache = EmptyDict
    /\ text_cache = EmptyDict
    /\ remote \in MemberLists
    /\ github_token = TRUE
    /\ pc = [t \in Tasks |-> "idle"]
    /\ loc = [t \in Tasks |-> IdleLoc]
    /\ ret = NoRet
    /\ confirmed = {}
    /\ commit_failed = {}
    /\ read_since_clear = {}

ScanNext ==
    \/ \E t \in Tasks, npub \in LookupKeys : LookupMember(t, npub)
    \/ \E t \in Tasks : GetFirstCurator(t)
    \/ Deliver

ScanSpec == ScanInit /\ [][ScanNext]_vars

\* ================================================================== claims
\* A challenge of the store that has not expired at time t.
Live(store, k, t) == k \in DOMAIN store /\ ~(t > store[k].expires_at)

\* A step in which a call began and ended without awaiting anything.
ImmediateReturn == ret = NoRet /\ ret' # NoRet /\ pc' = pc

\* C1: in every reachable state the challenge store holds at most one
\* challenge that has not expired for any one identity key.
C1_OneLiveChallengePerIdentity ==
    \A j, k \in DOMAIN challenges :
        (/\ j # k
         /\ challenges[j].npub = challenges[k].npub
         /\ Live(challenges, j, now))
        => ~Live(challenges, k, now)

\* A second request for the identity was refused while its challenge is live.
C1_Witness ==
    /\ ret.op = "request"
    /\ ret.res = "pending"
    /\ \E k \in DOMAIN challenges :
        challenges[k].npub = ret.npub /\ Live(challenges, k, now)

\* C2: the remote member list never holds two records with the same identity
\* key, whatever the interleaving of confirm_citizenship calls.
C2_NoDuplicateMember ==
    \A i, j \in 1..Len(remote) : remote[i].npub = remote[j].npub => i = j

\* C3: a call whose collaborator failed returns "commit failed"; a later call
\* with the same challenge and the same event, begun before the challenge
\* expired, whose collaborator succeeds, returns success.
C3_RetryAfterCommitFailure ==
    (ret.op = "confirm" /\ ret.invoked) =>
        /\ ret.put # "ok" => (ret.res = "commit_failed" /\ ~ret.exc)
        /\ (ret.retry /\ ret.put = "ok") => (ret.res = "ok" /\ ~ret.exc)

\* The errors of the four assertion gates.
GateErrors == {"malformed", "bad_signature", "signer_mismatch", "nonce_mismatch"}

\* The pruning the claims allow: the challenges of `old` that have not expired
\* are in `new` as they were, and `new` holds nothing else.
OnlyPruned(old, new, t) ==
    /\ DOMAIN new \subseteq DOMAIN old
    /\ \A k \in DOMAIN new : new[k] = old[k]
    /\ \A k \in DOMAIN old : Live(old, k, t) => k \in DOMAIN new

\* C4: a confirm_citizenship call that fails at an assertion gate changes the
\* store by pruning only; its challenge is still there with the same nonce,
\* identity key, display name and expiry.
C4_GateFailureKeepsChallenge ==
    [][(ImmediateReturn /\ ret'.op = "confirm" /\ ret'.res \in GateErrors) =>
          /\ OnlyPruned(challenges, challenges', now)
          /\ ret'.cid \in DOMAIN challenges
          /\ ret'.cid \in DOMAIN challenges'
          /\ challenges'[ret'.cid] = challenges[ret'.cid]
          /\ UNCHANGED <<nextId, remote, json_cache, text_cache>>]_vars

\* A call failed at the last gate and its challenge is in the store.
C4_Witness ==
    /\ ret.op = "confirm"
    /\ ret.res = "nonce_mismatch"
    /\ ret.cid \in DOMAIN challenges

\* C5: a successful confirm_citizenship leaves its challenge out of the store,
\* and every confirm_citizenship begun later for that challenge id, with any
\* claimed identity and any event, returns "not found" at once, without
\* reading the registry or invoking the commit.
C5_ConfirmedChallengeIsSpent ==
    /\ []((ret.op = "confirm" /\ ret.res = "ok") => ret.cid \notin DOMAIN challenges)
    /\ [](\A c \in confirmed : c \notin DOMAIN challenges)
    /\ [][/\ (ImmediateReturn /\ ret'.op = "confirm" /\ ret'.cid \in confirmed) =>
               (ret'.res = "not_found" /\ ~ret'.invoked /\ remote' = remote)
          /\ \A t \in Tasks :
               (pc[t] = "idle" /\ pc'[t] # "idle" /\ loc'[t].op = "confirm") =>
                   loc'[t].cid \notin confirmed]_vars

\* A confirmation of a challenge already confirmed was refused.
C5_Witness ==
    /\ ret.op = "confirm"
    /\ ret.res = "not_found"
    /\ ret.cid \in confirmed

\* The error the claim of C6 lets a confirmation return for an event: that of
\* the first gate, in the order parse, signature, signer, nonce, that fails.
FirstFailingGate(ev, npub, nonce) ==
    IF ~ev.json THEN "malformed"
    ELSE IF ~ev.sig THEN "bad_signature"
    ELSE IF ev.author # PkHex(npub) THEN "signer_mismatch"
    ELSE IF nonce \notin ev.markers THEN "nonce_mismatch"
    ELSE "pass"

\* C6: a confirm_citizenship call that comes to the assertion gates returns the
\* error of the first failing gate in the order parse, signature, signer,
\* nonce, and goes on to the race-guard read (and so to the commit) only when
\* all four pass.
C6_GatesInOrder ==
    [][/\ (ImmediateReturn /\ ret'.op = "confirm" /\ ret'.ev # NoEvent) =>
            /\ ret'.cid \in DOMAIN challenges
            /\ ret'.res \in GateErrors
            /\ ret'.res = FirstFailingGate(ret'.ev, ret'.npub,
                                           challenges[ret'.cid].nonce)
            /\ ~ret'.invoked
            /\ ret'.guard = "none"
       /\ \A t \in Tasks :
            (pc[t] = "idle" /\ pc'[t] # "idle" /\ loc'[t].op = "confirm") =>
                /\ pc'[t] = "cf_guard"
                /\ loc'[t].cid \in DOMAIN challenges
                /\ FirstFailingGate(loc'[t].ev, loc'[t].npub,
                                    challenges[loc'[t].cid].nonce) = "pass"]_vars

\* An event with a bad signature, signed by the wrong key, was refused for
\* its signature.
C6_Witness ==
    /\ ret.op = "confirm"
    /\ ret.res = "bad_signature"
    /\ ret.ev.author # PkHex(ret.npub)

\* C7: a confirm_citizenship call naming a live challenge with another identity
\* key than the challenge's returns "npub does not match" without having
\* looked at the event, whatever the event, and leaves the challenge stored.
C7_NpubMismatchFirst ==
    [][/\ (/\ ImmediateReturn
           /\ ret'.op = "confirm"
           /\ Live(challenges, ret'.cid, now)
           /\ challenges[ret'.cid].npub # ret'.npub) =>
            /\ ret'.res = "npub_mismatch"
            /\ ret'.ev = NoEvent
            /\ ret'.cid \in DOMAIN challenges'
            /\ challenges'[ret'.cid] = challenges[ret'.cid]
       /\ \A t \in Tasks :
            (pc[t] = "idle" /\ pc'[t] # "idle" /\ loc'[t].op = "confirm") =>
                /\ loc'[t].cid \in DOMAIN challenges
                /\ challenges[loc'[t].cid].npub = loc'[t].npub]_vars

\* A call claiming another identity was refused and the challenge is stored.
C7_Witness ==
    /\ ret.op = "confirm"
    /\ ret.res = "npub_mismatch"
    /\ ret.cid \in DOMAIN challenges
    /\ challenges[ret.cid].npub # ret.npub

\* C8: a confirm_citizenship call whose race-guard lookup finds the identity in
\* the member list deletes the challenge, returns "registered while pending"
\* and never invokes the commit.
C8_RaceGuardHit ==
    (ret.op = "confirm" /\ ret.guard = "present") =>
        /\ ret.res = "registered_while_pending"
        /\ ~ret.exc
        /\ ret.cid \notin DOMAIN challenges
        /\ ~ret.invoked
        /\ ret.api = 0

\* C9: a confirm_citizenship call whose PUT was refused for a stale
\* sha deletes the challenge and returns "registered while pending".
C9_ConflictIsRaceGuardHit ==
    (ret.op = "confirm" /\ ret.put = "conflict") =>
        /\ ret.res = "registered_while_pending"
        /\ ret.cid \notin DOMAIN challenges

\* C10: every request_citizenship and confirm_citizenship invocation ends by
\* returning a result; none ends with an exception.
C10_NoExceptionEscapes ==
    ret.op \in {"request", "confirm"} => ~ret.exc

\* A step in which a request_citizenship call ends.
RequestEnds == ret = NoRet /\ ret' # NoRet /\ ret'.op = "request"

\* C11: a request_citizenship for a non-member identity is judged when it
\* reaches its pending check.  While a challenge of the identity is in the
\* store and has not expired, it fails with "pending" and creates nothing; when
\* there is none (the first request, or a request after the challenge's
\* expires_at has passed), it succeeds and stores a challenge under an id and a
\* nonce no challenge had before.
C11_PendingUntilExpiry ==
    [][(RequestEnds /\ ret'.res \in {"ok", "pending"}) =>
          IF \E k \in DOMAIN challenges :
                 challenges[k].npub = ret'.npub /\ Live(challenges, k, now)
          THEN /\ ret'.res = "pending"
               /\ OnlyPruned(challenges, challenges', now)
               /\ nextId' = nextId
          ELSE /\ ret'.res = "ok"
               /\ ret'.newid \notin DOMAIN challenges
               /\ ret'.newid >= nextId
               /\ \A k \in DOMAIN challenges : challenges[k].nonce # ret'.newid
               /\ ret'.newid \in DOMAIN challenges'
               /\ challenges'[ret'.newid] =
                      new_challenge(ret'.npub, ret'.dn, ret'.newid, now)
               /\ nextId' > ret'.newid]_vars

\* A second challenge was issued to the identity after its first expired
\* unconfirmed.
C11_Witness ==
    /\ ret.op = "request"
    /\ ret.res = "ok"
    /\ ret.newid = 2
    /\ confirmed = {}
    /\ Len(remote) = 1
    /\ now > CHALLENGE_TTL_SECONDS

\* A step in which task t begins a confirm_citizenship call that suspends.
ConfirmSuspends(t) == pc[t] = "idle" /\ pc'[t] # "idle" /\ loc'[t].op = "confirm"

C13_ChallengeLifecycle ==
    /\ [](\A k \in DOMAIN challenges : k < nextId)
    /\ [][\A k \in 1..MaxChallenges :
            /\ (k \notin DOMAIN challenges /\ k \in DOMAIN challenges') =>
                  /\ RequestEnds
                  /\ ret'.res = "ok"
                  /\ ret'.newid = k
                  /\ k >= nextId
                  /\ nextId' > k
            /\ (k \in DOMAIN challenges /\ k \in DOMAIN challenges') =>
                  challenges'[k] = challenges[k]
            /\ (k \in DOMAIN challenges /\ k \notin DOMAIN challenges') =>
                  \/ /\ ret'.op = "confirm"
                     /\ ret'.cid = k
                     /\ ret'.res = "ok"
                     /\ ret'.put = "ok"
                  \/ /\ ret'.op = "confirm"
                     /\ ret'.cid = k
                     /\ ret'.res = "registered_while_pending"
                     /\ ret'.guard = "present"
                  \/ now > challenges[k].expires_at]_vars

\* A challenge left the store superseded: the race guard of a call on it found
\* the identity registered.
C13_Witness ==
    /\ ret.op = "confirm"
    /\ ret.res = "registered_while_pending"
    /\ ret.cid < nextId
    /\ ret.cid \notin DOMAIN challenges
    /\ ret.cid \notin confirmed

\* Steps of a registry read: answered at once, begun and suspended on its
\* GET, completed when the GET answers.
ReadAnswered == ImmediateReturn /\ ret'.op \in RegistryOps
ReadBegins(t) == pc[t] = "idle" /\ pc'[t] \in {"reg_json", "reg_text"}
ReadCompletes(t) == pc[t] \in {"reg_json", "reg_text"} /\ pc'[t] = "idle"
\* The cache of `op` holds an entry for `path` younger than the TTL.
Fresh(op, path) ==
    /\ path \in DOMAIN CacheOf(op)
    /\ now - CacheOf(op)[path].fetched_at < cache_ttl_seconds

\* C14: a read that finds an entry younger than the TTL returns the stored
\* value, sends no GET and leaves the caches alone; a read that finds no entry
\* or an entry of age >= TTL sends exactly one GET, and when the GET succeeds
\* the entry of its key is replaced by the fetched value, the other entries
\* staying as they are.
C14_CacheHitOrOneFetch ==
    [][/\ ReadAnswered =>
            /\ Fresh(ret'.op, ret'.path)
            /\ ret'.doc = CacheOf(ret'.op)[ret'.path].data
            /\ ret'.gets = 0
            /\ UNCHANGED <<json_cache, text_cache>>
       /\ \A t \in Tasks :
            /\ ReadBegins(t) =>
                  /\ ~Fresh(loc'[t].op, loc'[t].path)
                  /\ loc'[t].gets = 1
                  /\ UNCHANGED <<json_cache, text_cache>>
            /\ ReadCompletes(t) =>
                  /\ ret'.gets = 1
                  /\ ret'.doc # "none" =>
                        LET after == IF ret'.op = "get_text" THEN text_cache'
                                     ELSE json_cache'
                        IN  /\ ret'.path \in DOMAIN after
                            /\ after[ret'.path].data = ret'.doc
                            /\ \A q \in DOMAIN CacheOf(ret'.op) \ {ret'.path} :
                                  q \in DOMAIN after /\ after[q] = CacheOf(ret'.op)[q]
                  /\ IF ret'.op = "get_text" THEN json_cache' = json_cache
                     ELSE text_cache' = text_cache]_vars

\* A text was returned from an entry that is older than the read and younger
\* than the TTL, with no GET.
C14_Witness ==
    /\ ret.op = "get_text"
    /\ ret.gets = 0
    /\ ret.path \in DOMAIN text_cache
    /\ ret.doc = text_cache[ret.path].data
    /\ text_cache[ret.path].fetched_at < now

\* C15: invalidate_cache leaves both caches empty whatever the age of their
\* entries, and the first read of a key that is begun after it sends a GET.
C15_FirstReadAfterClearFetches ==
    /\ []((ret.op = "invalidate_cache") =>
            (json_cache = EmptyDict /\ text_cache = EmptyDict))
    /\ [][/\ (ReadAnswered /\ ret'.path \notin read_since_clear) => FALSE
          /\ \A t \in Tasks :
                (ReadBegins(t) /\ loc'[t].path \notin read_since_clear) =>
                    loc'[t].gets = 1]_vars

\* C16: a registry read whose GET failed, whose body did not parse, or whose
\* member resource has no well-formed "members" wrapper ends with
\* RegistryError; no read ends with an error of another kind.
C16_FailuresAreRegistryErrors ==
    ret.op \in RegistryOps =>
        /\ ret.exc => ret.res = "RegistryError"
        /\ ret.doc = "none" => (ret.exc /\ ret.res = "RegistryError")
        /\ (ret.op # "get_text" /\ ret.doc \in {"doc_nowrapper", "doc_null"}) =>
              (ret.exc /\ ret.res = "RegistryError")

\* The positions of the list `remote` at which a record satisfies a test.
KeyAt(npub) == {i \in 1..Len(remote) : remote[i].npub = npub}
CuratorAt == {i \in 1..Len(remote) : remote[i].role = "prime_authority"}

\* C17: for every member list and every key, lookup_member returns the first
\* record of the list carrying the key when there is one, and absent when
\* there is none.
C17_LookupFirstMatch ==
    ret.op = "lookup_member" =>
        IF KeyAt(ret.npub) = {} THEN ret.member = None
        ELSE /\ ret.member.npub = ret.npub
             /\ \E i \in KeyAt(ret.npub) :
                   /\ \A j \in KeyAt(ret.npub) : i <= j
                   /\ ret.member = remote[i]

\* A list holds the key twice, in different records, and the first was returned.
C17_Witness ==
    /\ ret.op = "lookup_member"
    /\ Len(remote) = 3
    /\ KeyAt(ret.npub) = {2, 3}
    /\ remote[2] # remote[3]
    /\ remote[2].role = remote[3].role
    /\ ret.member = remote[2]

\* C18: for every member list, get_first_curator returns absent when no record
\* has the role prime_authority, and the record that has it when exactly one
\* does.
C18_FirstCurator ==
    ret.op = "get_first_curator" =>
        /\ CuratorAt = {} => ret.member = None
        /\ Cardinality(CuratorAt) = 1 => \E i \in CuratorAt : ret.member = remote[i]

\* The only curator is the last record of a list of three and was returned.
C18_Witness ==
    /\ ret.op = "get_first_curator"
    /\ CuratorAt = {3}
    /\ ret.member = remote[3]

\* C19: a request_citizenship call with a string that is not a well-formed
\* npub returns the invalid-npub failure in the same step, having changed
\* neither the challenge store nor a cache and having sent no registry read; no
\* call with such a string ever awaits the registry.
C19_InvalidNpubNoEffect ==
    [][/\ (ImmediateReturn /\ ret'.op = "request" /\ ret'.npub \notin ValidNpubs) =>
            /\ ret'.res = "invalid_npub"
            /\ ~ret'.exc
            /\ UNCHANGED <<challenges, nextId, json_cache, text_cache, remote>>
       /\ \A t \in Tasks :
            (pc[t] = "idle" /\ pc'[t] # "idle" /\ loc'[t].op = "request") =>
                loc'[t].npub \in ValidNpubs]_vars

\* A string with the prefix that does not decode was refused while the store
\* held a challenge and the cache an entry.
C19_Witness ==
    /\ ret.op = "request"
    /\ ret.npub = "npub1zz"
    /\ ret.res = "invalid_npub"
    /\ DOMAIN challenges # {}
    /\ DOMAIN json_cache # {}

\* C20: a request_citizenship call whose lookup_member found the identity in
\* the member list it read (the valid cache entry, or the answer of its GET)
\* returns "already a member" and leaves the challenge store and the id
\* counter exactly as they were; it does not even prune.
C20_AlreadyMemberNoChallenge ==
    [][(RequestEnds /\ ret'.res \notin {"invalid_npub", "RegistryError"}) =>
          LET seen == IF pc' = pc THEN json_cache[MembersPath].data.members
                      ELSE remote
          IN  (\E i \in 1..Len(seen) : seen[i].npub = ret'.npub) =>
                  /\ ret'.res = "already_member"
                  /\ ~ret'.exc
                  /\ challenges' = challenges
                  /\ nextId' = nextId]_vars

\* An identity that is in the member list asked again while a challenge was in
\* the store; the call was refused and the store kept.
C20_Witness ==
    /\ ret.op = "request"
    /\ ret.res = "already_member"
    /\ \E i \in 1..Len(remote) : remote[i].npub = ret.npub
    /\ DOMAIN challenges # {}

\* A step in which the remote store accepts the PUT of task t.
PutAccepted(t) == pc[t] = "cf_put" /\ pc'[t] = "cf_resp" /\ remote' # remote
\* The npub of the prime_authority record of the list, "none" when it has none.
CuratorKey(members) ==
    IF \E i \in 1..Len(members) : members[i].role = "prime_authority"
    THEN members[CHOOSE i \in 1..Len(members) :
                    members[i].role = "prime_authority"].npub
    ELSE "none"

\* C21: the record a confirm_citizenship call has the remote store append
\* carries the identity key and the display name of the call's challenge (the
\* name given when it was requested), role citizen, status active, and as
\* upstream authority the key of the prime_authority record of the registry,
\* or none when the registry has no such record.
C21_AppendedRecord ==
    [][\A t \in Tasks :
          PutAccepted(t) =>
              LET rec == remote'[Len(remote')]
                  cid == loc[t].cid
              IN  /\ rec.role = "citizen"
                  /\ rec.status = "active"
                  /\ rec.npub \in ValidNpubs \cap ApplicantNpubs
                  /\ \E k \in 1..MaxChallenges : rec.display_name = DisplayNameOf(k)
                  /\ cid \in DOMAIN challenges =>
                        /\ rec.npub = challenges[cid].npub
                        /\ rec.display_name = challenges[cid].display_name
                  /\ rec.upstream_authority_npub = CuratorKey(remote)]_vars

\* A citizen was appended to a list with no prime_authority record, with no
\* upstream authority.
C21_Witness ==
    /\ Len(remote) >= 1
    /\ remote[1].role = "citizen"
    /\ remote[1].upstream_authority_npub = "none"
    /\ remote[1].npub = "npub1a"

\* A call ends in this step; Immediately: in the step in which it began.
CallEnds == ret = NoRet /\ ret' # NoRet
Immediately == pc' = pc
\* What request_citizenship answers once lookup_member has the document
\* `data`, written without reference to the write credential.
RequestOutcome(data, npub) ==
    LET members == get_members(data)
    IN  IF members = "RegistryError" THEN "RegistryError"
        ELSE IF lookup_scan(members, npub) # None THEN "already_member"
        ELSE IF has_pending(prune_expired_challenges(challenges, now), npub)
        THEN "pending"
        ELSE "ok"
\* The result of the request_citizenship call that ends in this step is the
\* one the validation, the member list and the store determine.
RequestResultTokenFree ==
    IF Immediately
    THEN IF validate_npub(ret'.npub) = "invalid"
         THEN ret'.res = "invalid_npub"
         ELSE /\ cache_valid(json_cache, MembersPath, now)
              /\ ret'.res = RequestOutcome(json_cache[MembersPath].data, ret'.npub)
    ELSE ret'.res \in {"RegistryError", RequestOutcome(RemoteDoc, ret'.npub)}
\* The result of the confirm_citizenship call that ends in this step at a
\* gate or at the race guard is the one the store, the event and the member
\* list determine.
GateResultTokenFree ==
    IF Immediately
    THEN /\ ret'.res # "pass"
         /\ ret'.res = confirm_checks(prune_expired_challenges(challenges, now),
                                      ret'.npub, ret'.cid, ret'.ev)
    ELSE \/ ret'.res = "RegistryError"
         \/ /\ lookup_scan(remote, ret'.npub) # None
            /\ ret'.res = IF ret'.cid \in DOMAIN challenges
                          THEN "registered_while_pending" ELSE "KeyError"

\* C22: the write credential bears only on a confirmation that reaches the
\* commit step.  Without it such a confirmation returns 'commit failed', has
\* sent nothing to the write API and leaves the challenge store and the remote
\* list as they were; no call is ever waiting on the write API.  The results
\* of request_citizenship, of the gates and of the race guard are given by
\* expressions in which the credential does not occur, and a confirmation
\* reaches the commit step exactly when the race guard finds no member.
C22_TokenOnlyAffectsCommit ==
    [][/\ CallEnds /\ ret'.op = "request" => RequestResultTokenFree
       /\ CallEnds /\ ret'.op = "confirm" /\ ~ret'.invoked => GateResultTokenFree
       /\ CallEnds /\ ret'.op = "confirm" /\ ret'.invoked =>
             ret'.guard = "absent"
       /\ ~github_token =>
             /\ remote' = remote
             /\ \A t \in Tasks : /\ pc'[t] \notin {"cf_get", "cf_put", "cf_resp"}
                                 /\ loc'[t].api = 0
             /\ CallEnds /\ ret'.op = "confirm" /\ ret'.invoked =>
                   /\ ret'.res = "commit_failed"
                   /\ ~ret'.exc
                   /\ ret'.api = 0
                   /\ ret'.put = "none"
                   /\ challenges' = challenges]_vars

\* Without the credential a confirmation reached the commit step and ended
\* 'commit failed' with its challenge still in the store.
C22_Witness ==
    /\ ~github_token
    /\ ret.op = "confirm"
    /\ ret.invoked
    /\ ret.res = "commit_failed"
    /\ ret.api = 0
    /\ ret.cid \in DOMAIN challenges

\* C23: the remote list changes only when the write API accepts the PUT of a
\* commit, and then it becomes the list that commit read, which is the list
\* as it was, with exactly one record added at its end: the records that were
\* there keep their content and their position.  A PUT that is refused leaves
\* the list unchanged, and so does every step in which a call ends 'commit
\* failed', a call whose own PUT, if it sent one, was refused.
C23_AppendOnly ==
    [][/\ remote' # remote =>
             \E t \in Tasks :
                 /\ PutAccepted(t)
                 /\ loc[t].sha = remote
                 /\ Len(remote') = Len(loc[t].sha) + 1
                 /\ \A i \in 1..Len(loc[t].sha) : remote'[i] = loc[t].sha[i]
                 /\ \A i \in 1..Len(remote) : remote'[i] = remote[i]
       /\ \A t \in Tasks :
             pc[t] = "cf_put" /\ pc'[t] = "cf_resp" /\ loc'[t].put # "ok" =>
                 remote' = remote
       /\ CallEnds /\ ret'.res = "commit_failed" =>
             /\ remote' = remote
             /\ ret'.put # "ok"]_vars

\* A commit succeeded on a list that held a record already, and one commit
\* of another call was refused.
C23_Witness ==
    /\ Len(remote) = 2
    /\ remote[1] = Curator
    /\ remote[2].role = "citizen"
    /\ \E t \in Tasks : pc[t] = "cf_resp" /\ loc[t].put = "conflict"

\* The race-guard lookup of task t is answered in this step.
GuardAnswered(t) == pc[t] = "cf_guard" /\ pc'[t] # "cf_guard"
\* What the call of task t, or the result it ended with, says the guard found.
GuardReading(t) == IF pc'[t] = "idle" THEN ret'.guard ELSE loc'[t].guard

\* C24: the race-guard lookup of confirm_citizenship is never answered from a
\* cache entry.  A call that passes the gates empties both caches and is
\* waiting on the GET of the member list at the end of the same step, whatever
\* the caches held and whatever other calls are in flight; a call that ends in
\* the step in which it began ended at a gate, without a guard reading; and
\* the reading the guard acts on is that of the list the remote store holds
\* when the GET is answered, even when another call has filled the cache
\* meanwhile.
C24_GuardNeverFromCache ==
    [][\A t \in Tasks :
          /\ ConfirmSuspends(t) =>
                /\ pc'[t] = "cf_guard"
                /\ json_cache' = EmptyDict
                /\ text_cache' = EmptyDict
                /\ loc'[t].guard = "none"
          /\ CallEnds /\ Immediately /\ ret'.op = "confirm" => ret'.guard = "none"
          /\ GuardAnswered(t) /\ GuardReading(t) # "none" =>
                GuardReading(t) = IF lookup_scan(remote, loc[t].npub) # None
                                  THEN "present" ELSE "absent"]_vars

\* A confirmation waits on its race-guard GET while the cache holds a valid
\* entry again: a call that was in flight at the invalidation has stored it.
C24_Witness ==
    \E t \in Tasks :
        /\ pc[t] = "cf_guard"
        /\ cache_valid(json_cache, MembersPath, now)

\* Task t executes `del _challenges[challenge_id]` in this step: at the race
\* guard that found a member, or after a PUT that was accepted.
DeletePoint(t) ==
    \/ /\ GuardAnswered(t)
       /\ pc'[t] = "idle"
       /\ ret'.guard = "present"
    \/ /\ pc[t] = "cf_resp"
       /\ pc'[t] = "idle"
       /\ loc[t].put = "ok"

\* C25: whenever a confirm_citizenship call reaches one of its two deletions,
\* its challenge is in the store, so the deletion removes it and does not
\* fail on a missing key.
C25_DeleteFindsChallenge ==
    [][\A t \in Tasks :
          DeletePoint(t) =>
              /\ loc[t].cid \in DOMAIN challenges
              /\ loc[t].cid \notin DOMAIN challenges'
              /\ ret'.res # "KeyError"]_vars

\* A commit on behalf of challenge cid has been accepted already: a call is
\* about to receive the answer to its accepted PUT, or has received it.
CommittedFor(cid) ==
    \/ cid \in confirmed
    \/ \E u \in Tasks : pc[u] = "cf_resp" /\ loc[u].put = "ok" /\ loc[u].cid = cid
    \/ ret.op = "confirm" /\ ret.put = "ok" /\ ret.cid = cid

\* C26: a challenge is used for at most one successful commit.  The write API
\* never accepts the PUT of a confirm_citizenship call whose challenge has had
\* a PUT accepted before, however the calls on that challenge interleave.
C26_OneCommitPerChallenge ==
    [][\A t \in Tasks : PutAccepted(t) => ~CommittedFor(loc[t].cid)]_vars

\* A confirm_citizenship call has returned success for npub: its record is in
\* the remote list and its challenge was deleted after the commit.
ConfirmedCitizen(npub) ==
    /\ confirmed # {}
    /\ \E i \in 1..Len(remote) : remote[i].npub = npub /\ remote[i].role = "citizen"

\* C27: once a confirmation has succeeded for an identity, a
\* request_citizenship for it that begins afterwards and is answered without
\* a new fetch, from the cache entry the race guard of that confirmation
\* stored and that is still valid, returns 'already a member' and leaves the
\* challenge store and the id counter as they are.
C27_MemberAfterConfirm ==
    [][(/\ CallEnds
        /\ Immediately
        /\ ret'.op = "request"
        /\ ConfirmedCitizen(ret'.npub))
       => /\ ret'.res = "already_member"
          /\ challenges' = challenges
          /\ nextId' = nextId]_vars

\* The entries two successive states of a cache both hold have not gone back
\* in time.
NotOlder(before, after) ==
    \A path \in DOMAIN before \cap DOMAIN after :
        after[path].fetched_at >= before[path].fetched_at

\* C28: the cache entry of a key is never replaced by the result of a fetch
\* that began before the fetch that produced the entry: in no step does the
\* fetchedAt of an entry of the structured cache or of the text cache
\* decrease.
C28_FetchedAtNeverDecreases ==
    [][NotOlder(json_cache, json_cache') /\ NotOlder(text_cache, text_cache')]_vars

\* A registry read ends with RegistryError in this step; FetchFailed: because
\* its GET failed, so that it never had a body.
ReadFails == CallEnds /\ ret'.op \in RegistryOps /\ ret'.res = "RegistryError"
FetchFailed == ReadFails /\ ret'.doc = "none"

\* C29 as stated: a registry read that ends with RegistryError has sent a GET,
\* so that no failure is answered from memory, and leaves both caches as
\* they were.
C29_FailureLeavesCaches ==
    [][ReadFails =>
          /\ ret'.gets = 1
          /\ json_cache' = json_cache
          /\ text_cache' = text_cache]_vars

\* C29, amended: a registry read whose fetch fails (transport error, error
\* status, unparseable body) has sent a GET and leaves both caches as they
\* were, so that a key without a valid entry is still without one and the next
\* read of it sends a GET.  The RegistryError of get_members for a body
\* without the wrapper key is raised after the body was stored: it is the only
\* failure a valid cache entry answers, and the caches hold bodies only.
C29_FetchFailureLeavesCaches ==
    [][/\ FetchFailed =>
             /\ ret'.gets = 1
             /\ json_cache' = json_cache
             /\ text_cache' = text_cache
             /\ \A op \in RegistryOps : \A path \in PathsOf(op) :
                   ~Fresh(op, path) => ~cache_valid(CacheOf(op)', path, now')
       /\ ReadFails /\ ret'.gets = 0 =>
             /\ Fresh(ret'.op, ret'.path)
             /\ ret'.doc = CacheOf(ret'.op)[ret'.path].data
             /\ ~has_wrapper(ParseDoc(ret'.doc))
       /\ \A path \in DOMAIN json_cache' : json_cache'[path].data \in JsonDocs
       /\ \A path \in DOMAIN text_cache' : text_cache'[path].data \in Texts]_vars

\* The fetch of a read has failed while the cache holds a valid entry for the
\* same key, stored by another read since this one began.
C29_Witness ==
    /\ ret.op \in RegistryOps
    /\ ret.res = "RegistryError"
    /\ ret.doc = "none"
    /\ ret.gets = 1
    /\ ret.path \in DOMAIN json_cache
    /\ cache_valid(json_cache, ret.path, now)

\* C30: no challenge stays in the store forever.  With time advancing, every
\* request answered and confirm_citizenship invoked again and again, each
\* challenge that is in the store is eventually out of it, confirmed,
\* superseded or pruned, also when every commit on its behalf fails.
C30_ChallengeEventuallyRemoved ==
    \A k \in 1..MaxChallenges :
        (k \in DOMAIN challenges) ~> (k \notin DOMAIN challenges)

\* A challenge whose commit failed has expired and is still in the store,
\* waiting for the next prune.
C30_Witness ==
    \E f \in commit_failed :
        /\ f[1] \in DOMAIN challenges
        /\ now > challenges[f[1]].expires_at

====
